---- MODULE Spec2Model ----
(***************************************************************************)
(* A model of edconnect-algorithms.                                        *)
(*                                                                         *)
(* Core A, the parent-teacher conference scheduler, in its two gadget      *)
(* variants:                                                               *)
(*   parent_teacher_conference_sorting_with_suggestions.py  (no drop edge) *)
(*   parent_teacher_conference_sorting.py                   (drop edges)   *)
(*                                                                         *)
(* Labels (parents, teachers, slots) are opaque atoms; a node of the flow  *)
(* graph, which the source names by an f-string such as "A_{p}_{t}_{r}",   *)
(* is the tuple of the kind and the labels it is formatted from.           *)
(* nx.network_simplex is an external solver: it raises NetworkXUnfeasible  *)
(* when the demands cannot be met and otherwise returns one of the         *)
(* minimum-cost integral flows, which one being its own choice.            *)
(*                                                                         *)
(* Core B, the class assignment of student_sorting_algorithm.py: the       *)
(* preprocessed solver, the full solver and the strategy selector, called  *)
(* with factor_gender=False and second_optional_parameter=None;            *)
(* optional_parameter is None except under SpecOptional.                   *)
(* best_partition is an external routine: it returns some partition of the *)
(* nodes of the preference graph. CBC is an external solver: without a     *)
(* time limit it returns an optimal solution (sol_status 1); with one it   *)
(* may also stop with a feasible incumbent (2) or with none (0), and then  *)
(* no variable has the value 1.                                            *)
(***************************************************************************)
EXTENDS Integers, Sequences, FiniteSets, TLC

\* ------------------------------------------------------------- bounds
\* the most meeting requests an input holds
MaxRequests == 4

\* the largest class size, the longest prefs list, and the most entries of
\* prefs lists that name no student
MaxCap == 2
MaxPrefs == 2
MaxUnknownPrefs == 1

\* the longest prefs list of the datasets given to the detection alone
MaxDetectPrefs == 3

\* the labels the inputs are drawn from
AllStudents == <<"s1", "s2", "s3">>
UnknownStudent == "ghost"
ClassKeyLists == {<<1>>, <<0, 1>>, <<1, 2>>}
AllSlots == <<"9:00", "9:30", "10:00">>
AllParents == <<"Parent1", "Parent2", "Parent3">>
Teachers == {"Math", "Science"}

\* preferred_reward=10, drop_penalty=1000 in the signatures of
\* schedule_meetings_optimal
DefaultPreferredReward == 10
DefaultDropPenalty == 1000

VARIABLES
    variant,             \* which module's schedule_meetings_optimal is called
    time_slots,          \* argument: sequence of slot labels
    teachers,            \* argument: the teacher labels
    parent_preferences,  \* argument: parent -> [teachers, preferred_slots]
    preferred_reward,    \* argument
    pc,                  \* position in schedule_meetings_optimal
    G,                   \* the nx.DiGraph under construction
    flowCost, flowDict,  \* what nx.network_simplex returned
    schedule,            \* (parent, teacher) -> slot
    total_reward,
    unscheduled,         \* the dropped requests (drop variant)
    suggestions,         \* (parent, teacher) -> list of alternative slots
    outcome              \* how the call ended

schedVars == <<variant, time_slots, teachers, parent_preferences,
               preferred_reward, pc, G, flowCost, flowDict, schedule,
               total_reward, unscheduled, suggestions, outcome>>

VARIABLES
    entry,               \* the function of student_sorting_algorithm.py called
    students_data,       \* argument: sequence of <<student, prefs>> (dict order)
    class_sizes,         \* argument: sequence of <<clazz, size>> (dict order)
    time_limit,          \* argument: "None" or "set"
    optional_parameter,  \* argument: "None" or the name of an attribute
    parameter_concentration,  \* argument: concentrate (TRUE) or spread
    carriers,            \* the students whose data has optional_parameter: "yes"
    cpc,                 \* position in the call
    avg_similarity_within_clusters,  \* what average_similarity returned,
                         \* as the fraction <<numerator, denominator>>
    preference_type,     \* what detect_preference_type returned
    ilp_model,           \* the full formulation's LpProblem at solve()
    assigned,            \* student -> the clazz whose variable has value 1
    ran_pre,             \* the preprocessed formulation was solved in this call
    sol_status,          \* its ilp_model.sol_status (read when ran_pre)
    initial_attempt,     \* its class_assignments
    ran_full,            \* the full formulation was solved in this call
    solution,            \* the class assignment the call returned
    returned             \* "pending", "assignment", "None" or "KeyError"

\* the arguments of the call
argVars == <<entry, students_data, class_sizes, time_limit, optional_parameter,
             parameter_concentration, carriers>>

classVars == <<argVars, cpc, avg_similarity_within_clusters,
               preference_type, ilp_model, assigned, ran_pre, sol_status,
               initial_attempt, ran_full, solution, returned>>

vars == <<schedVars, classVars>>

\* ------------------------------------------------------------ helpers
Range(s) == {s[i] : i \in DOMAIN s}

RECURSIVE SumOver(_, _)
SumOver(f, S) ==
    IF S = {} THEN 0
    ELSE LET x == CHOOSE y \in S : TRUE IN f[x] + SumOver(f, S \ {x})

Min(S) == CHOOSE x \in S : \A y \in S : x <= y

\* ------------------------------------------------- the flow graph (A1)
Source == <<"source">>
Sink == <<"sink">>
MNode(p, t) == <<"M", p, t>>
ANode(p, t, r) == <<"A", p, t, r>>
BNode(p, t, r) == <<"B", p, t, r>>
\* (mutant) a parent gadget per request instead of per (parent, slot)
PInPerRequest(p, t, r) == <<"P_in", p, t, r>>
PIn(p, t, r) == <<"P_in", p, r>>
POut(p, t, r) == <<"P_out", p, r>>
TIn(p, t, r) == <<"T_in", t, r>>
TOut(p, t, r) == <<"T_out", t, r>>

\* meeting_requests: every (parent, teacher) of parent_preferences
MeetingRequests(pp) ==
    UNION {{<<p, t>> : t \in pp[p].teachers} : p \in DOMAIN pp}

\* (mutant) the reward is given to every candidate edge
CandidateCostAlways(pp, reward, p, r) == -reward

\* cost of the candidate edge M(p,t) -> A(p,t,r)
CandidateCost(pp, reward, p, r) ==
    IF r \in pp[p].preferred_slots THEN -reward ELSE 0

\* the edges one pass of the inner loop adds for request (p,t) and slot r,
\* each with its weight; every capacity is 1
CandidateEdges(pp, reward, p, t, r) ==
    { <<MNode(p, t), ANode(p, t, r), CandidateCost(pp, reward, p, r)>>,
      <<ANode(p, t, r), PIn(p, t, r), 0>>,
      <<PIn(p, t, r), POut(p, t, r), 0>>,
      <<POut(p, t, r), BNode(p, t, r), 0>>,
      <<BNode(p, t, r), TIn(p, t, r), 0>>,
      <<TIn(p, t, r), TOut(p, t, r), 0>>,
      <<TOut(p, t, r), Sink, 0>> }

\* the weighted edges of the whole graph
WeightedEdges(slots, pp, reward) ==
    UNION { {<<Source, MNode(q[1], q[2]), 0>>}
            \cup UNION {CandidateEdges(pp, reward, q[1], q[2], r) : r \in Range(slots)}
          : q \in MeetingRequests(pp) }

\* (mutant) the demand counts the parents, not their requests
BuildGraphSupplyPerParent(slots, pp, reward) ==
    LET we == WeightedEdges(slots, pp, reward)
        es == {<<e[1], e[2]>> : e \in we}
    IN [ edges  |-> es,
         weight |-> [e \in es |-> (CHOOSE w \in we : w[1] = e[1] /\ w[2] = e[2])[3]],
         supply |-> Cardinality(DOMAIN pp) ]

\* G after the construction loop: edges (pairs of nodes), their weights and
\* the demands of source and sink (every other node has demand 0)
BuildGraph(slots, pp, reward) ==
    LET we == WeightedEdges(slots, pp, reward)
        es == {<<e[1], e[2]>> : e \in we}
    IN [ edges  |-> es,
         weight |-> [e \in es |-> (CHOOSE w \in we : w[1] = e[1] /\ w[2] = e[2])[3]],
         supply |-> Cardinality(MeetingRequests(pp)) ]

\* ------------------------------------------ nx.network_simplex (A2)
\* Every capacity is 1 and the graph is acyclic, so an integral flow is a
\* set of edges (those carrying one unit) that splits into edge-disjoint
\* paths from the source to the sink.
Cost(g, F) == SumOver(g.weight, F)

RECURSIVE PathsFrom(_, _)
PathsFrom(g, n) ==
    IF n = Sink THEN {{}}
    ELSE UNION { {{e} \cup q : q \in PathsFrom(g, e[2])}
               : e \in {d \in g.edges : d[1] = n} }

RECURSIVE Routings(_, _)
Routings(g, starts) ==
    IF starts = {} THEN {{}}
    ELSE LET e == CHOOSE x \in starts : TRUE
             rest == Routings(g, starts \ {e})
             paths == {{e} \cup q : q \in PathsFrom(g, e[2])}
         IN {pr[1] \cup pr[2] :
                pr \in {x \in rest \X paths : x[1] \cap x[2] = {}}}

Inflow(F, n) == Cardinality({e \in F : e[2] = n})
Outflow(F, n) == Cardinality({e \in F : e[1] = n})
Nodes(g) == {e[1] : e \in g.edges} \cup {e[2] : e \in g.edges} \cup {Source, Sink}

\* demand=-total_requests at the source, +total_requests at the sink, 0 elsewhere
Conserves(g, ns, F) ==
    \A n \in ns :
        Inflow(F, n) - Outflow(F, n) =
            (IF n = Source THEN -g.supply ELSE 0) + (IF n = Sink THEN g.supply ELSE 0)

\* the flows that meet the demands: g.supply of the source's edges are used
FeasibleFlows(g) ==
    LET ns == Nodes(g)
        used == {S \in SUBSET {e \in g.edges : e[1] = Source} :
                    Cardinality(S) = g.supply}
    IN {F \in UNION {Routings(g, S) : S \in used} : Conserves(g, ns, F)}

\* the feasible flows of least total weight (none: the problem is unfeasible)
MinCostFlows(g) ==
    LET ff == FeasibleFlows(g)
        costed == {<<F, Cost(g, F)>> : F \in ff}
    IN IF ff = {} THEN {}
       ELSE LET best == Min({c[2] : c \in costed})
            IN {c[1] : c \in {d \in costed : d[2] = best}}

\* ------------------------------------------------------ decoding (A2)
\* the first slot, in time_slots order, whose candidate edge carries flow;
\* 0 when none does
FirstFlowIndex(F, slots, p, t) ==
    LET hit == {i \in DOMAIN slots : <<MNode(p, t), ANode(p, t, slots[i])>> \in F}
    IN IF hit = {} THEN 0 ELSE Min(hit)

DecodeSchedule(F, slots, pp) ==
    LET placed == {q \in MeetingRequests(pp) : FirstFlowIndex(F, slots, q[1], q[2]) # 0}
    IN [q \in placed |-> slots[FirstFlowIndex(F, slots, q[1], q[2])]]

\* ------------------------------------------------- suggestions (A3)
\* the characters of the slot labels, as code points: sorted() compares the
\* labels as Python strings
CodePoints(slot) ==
    CASE slot = "9:00" -> <<57, 58, 48, 48>>
      [] slot = "9:30" -> <<57, 58, 51, 48>>
      [] slot = "10:00" -> <<49, 48, 58, 48, 48>>

\* str.__lt__: at the first index where they differ the smaller code point
\* decides; a proper prefix is smaller
RECURSIVE SeqLess(_, _)
SeqLess(a, b) ==
    IF a = <<>> THEN b # <<>>
    ELSE IF b = <<>> THEN FALSE
    ELSE IF Head(a) # Head(b) THEN Head(a) < Head(b)
    ELSE SeqLess(Tail(a), Tail(b))

StrLess(a, b) == SeqLess(CodePoints(a), CodePoints(b))

\* lines 123-127 and 130-134: the slots of the other meetings of the
\* teacher and of the parent
TeacherBooked(sch, parent, teacher) ==
    {sch[q] : q \in {q \in DOMAIN sch :
                        q[2] = teacher /\ ~(q[1] = parent /\ q[2] = teacher)}}

ParentBooked(sch, parent, teacher) ==
    {sch[q] : q \in {q \in DOMAIN sch :
                        q[1] = parent /\ ~(q[1] = parent /\ q[2] = teacher)}}

\* lines 137-141
Available(sch, slots, parent, teacher) ==
    SelectSeq(slots, LAMBDA slot : slot \notin TeacherBooked(sch, parent, teacher)
                                   /\ slot \notin ParentBooked(sch, parent, teacher))

\* lines 145-147: key(a) < key(b) for key = (slot not in preferred, slot),
\* False before True and then the labels as strings
SuggestionBefore(preferred, a, b) ==
    IF (a \in preferred) # (b \in preferred) THEN a \in preferred
    ELSE StrLess(a, b)

\* suggest_alternative_timeslots_for_meeting
SuggestAlternative(sch, slots, pp, parent, teacher) ==
    SortSeq(Available(sch, slots, parent, teacher),
            LAMBDA a, b : SuggestionBefore(pp[parent].preferred_slots, a, b))

\* generate_schedule_with_suggestions lines 168-177
SuggestionsFor(sch, slots, pp) ==
    [q \in DOMAIN sch |->
        IF sch[q] \in pp[q[1]].preferred_slots THEN <<>>
        ELSE SuggestAlternative(sch, slots, pp, q[1], q[2])]

\* ------------------------------------- feasibility_check (drop variant)
\* parent_teacher_conference_sorting.py lines 4-13. The generator expression
\* reads t, a name bound nowhere: its first iteration raises NameError. With
\* no parent to iterate over the sum is 0, the warning branch is skipped and
\* the function falls off its end, returning None.
FeasibilityCheck(slots, pp) ==
    IF DOMAIN pp # {} THEN "NameError"
    ELSE IF 0 > Len(slots) THEN "False"
    ELSE "None"

\* Python truth of what feasibility_check returns
Truthy(v) == v \notin {"None", "False"}

\* =================================================== class assignment
\* max_class = None; no clazz of the model is this value
NoClass == -1

Keys(d) == [i \in DOMAIN d |-> d[i][1]]
KeySet(d) == {d[i][1] : i \in DOMAIN d}
Lookup(d, k) == d[CHOOSE i \in DOMAIN d : d[i][1] = k][2]

\* set(students_data[s]["prefs"])
PrefSet(sd, s) == Range(Lookup(sd, s))

\* len(set(prefs(s1)) & set(prefs(s2)))
CommonPrefs(sd, s1, s2) == Cardinality(PrefSet(sd, s1) \cap PrefSet(sd, s2))

\* --------------------------------------------------- preprocess (B1)
\* the nodes of G: both ends of every G.add_edge(student, pref)
GraphNodes(sd) ==
    UNION {IF Lookup(sd, s) = <<>> THEN {} ELSE {s} \cup PrefSet(sd, s)
           : s \in KeySet(sd)}

RECURSIVE Partitions(_)
Partitions(S) ==
    IF S = {} THEN {{}}
    ELSE LET x == CHOOSE y \in S : TRUE
         IN UNION { { (P \ {B}) \cup {B \cup {x}} : B \in P } \cup { P \cup {{x}} }
                  : P \in Partitions(S \ {x}) }

\* ------------------------------------------------ the ILP model (B2)
\* (s1, s2, clazz) for the ordered pairs of distinct members of a cluster
ClusterTriples(cl, cs) ==
    {<<s1, s2, c>> : s1 \in UNION cl, s2 \in UNION cl, c \in KeySet(cs)}
        \cap {t \in (UNION cl) \X (UNION cl) \X KeySet(cs) :
                 t[1] # t[2] /\ \E B \in cl : t[1] \in B /\ t[2] \in B}

\* lines 44-94 read students_data[student] and assigned[student, clazz] for
\* every member of a pair: a member that is no student raises KeyError
PreBuildRaises(sd, cl, cs) ==
    \E t \in ClusterTriples(cl, cs) : t[1] \notin KeySet(sd) \/ t[2] \notin KeySet(sd)

\* ilp_assign_classes_with_preprocessing lines 38-94: the objective (a term
\* coef * pair variable per triple) and the triples whose pair variable is
\* linked to the assignment variables by the three AND constraints
PreModel(sd, cl, cs) ==
    LET ts == ClusterTriples(cl, cs)
    IN [ objective |-> {<<t[1], t[2], t[3], CommonPrefs(sd, t[1], t[2])>> : t \in ts},
         linked |-> ts ]

\* the (student1, student2, clazz) the loop of lines 246-265 visits, in order
FullLoop(sd, cs) ==
    LET RECURSIVE Visit(_, _, _)
        Visit(i, j, k) ==
            IF i > Len(sd) THEN <<>>
            ELSE IF j > Len(sd[i][2]) THEN Visit(i + 1, 1, 1)
            ELSE IF k > Len(cs) THEN Visit(i, j + 1, 1)
            ELSE <<<<sd[i][1], sd[i][2][j], cs[k][1]>>>> \o Visit(i, j, k + 1)
    IN Visit(1, 1, 1)

\* line 251 reads students_data[student2], line 254 common_assigned[student1,
\* student2, clazz]: KeyError when student2 is no student or is student1
FullBuildRaises(sd, cs) ==
    \E t \in Range(FullLoop(sd, cs)) : t[2] \notin KeySet(sd) \/ t[2] = t[1]

\* ilp_assign_classes_less_constraints_with_preprocessing lines 204-265: the
\* objective of lines 224-234 over all ordered pairs, which every pass of
\* line 265 (ilp_model += variable * common_pref, an expression and not a
\* constraint) replaces; the AND constraints only for student2 in prefs of
\* student1
FullModel(sd, cs) ==
    LET loop == FullLoop(sd, cs)
        last == loop[Len(loop)]
        all == {t \in KeySet(sd) \X KeySet(sd) \X KeySet(cs) : t[1] # t[2]}
    IN [ objective |->
             IF loop = <<>>
             THEN {<<t[1], t[2], t[3], CommonPrefs(sd, t[1], t[2])>> : t \in all}
             ELSE {<<last[1], last[2], last[3], CommonPrefs(sd, last[1], last[2])>>},
         linked |-> Range(loop) ]

\* ------------------------------------------------------ the solver (B3)
Members(x, c) == {s \in DOMAIN x : x[s] = c}

\* the values of the assignment variables that meet lines 68-76 (236-244):
\* at most one clazz per student, at most size students per clazz
\* lines 116-135 (287-306), the constraints of optional_parameter: in
\* concentration the carriers assigned, over all classes, are at most the
\* size of the first clazz; otherwise the carriers in each clazz are at most
\* class_sizes[clazz] / len(class_sizes), a true division
MeetsOptional(cs, opt, x) ==
    IF opt.parameter = "None" THEN TRUE
    ELSE IF opt.concentration
    THEN Cardinality({s \in opt.yes : x[s] # NoClass}) <= cs[1][2]
    ELSE \A c \in KeySet(cs) :
            Cardinality(Members(x, c) \cap opt.yes) * Len(cs) <= Lookup(cs, c)

FeasibleAssignments(sd, cs, opt) ==
    {x \in [KeySet(sd) -> KeySet(cs) \cup {NoClass}] :
        /\ \A c \in KeySet(cs) : Cardinality(Members(x, c)) <= Lookup(cs, c)
        /\ MeetsOptional(cs, opt, x)}

\* the best a term's pair variable contributes under x: a linked variable
\* is 1 exactly when both students are in the clazz, a free one is set to 1
\* when that pays
TermValue(m, x, t) ==
    IF <<t[1], t[2], t[3]>> \in m.linked
    THEN (IF x[t[1]] = t[3] /\ x[t[2]] = t[3] THEN t[4] ELSE 0)
    ELSE (IF t[4] > 0 THEN t[4] ELSE 0)

ObjectiveValue(m, x) ==
    SumOver([t \in m.objective |-> TermValue(m, x, t)], m.objective)

OptimalAssignments(m, sd, cs, opt) ==
    LET fa == FeasibleAssignments(sd, cs, opt)
        valued == {<<x, ObjectiveValue(m, x)>> : x \in fa}
        best == CHOOSE v \in {w[2] : w \in valued} :
                    \A w \in valued : w[2] <= v
    IN {w[1] : w \in {u \in valued : u[2] = best}}

\* what solve() may leave: <<sol_status, values>>
SolveOutcomes(m, sd, cs, limit, opt) ==
    {<<1, x>> : x \in OptimalAssignments(m, sd, cs, opt)}
    \cup (IF limit = "None" THEN {}
          ELSE {<<2, x>> : x \in FeasibleAssignments(sd, cs, opt)}
               \cup {<<0, [s \in KeySet(sd) |-> NoClass]>>})

\* ------------------------------------------------- decoding and repair
\* lines 161-168 (329-336): per clazz, the students whose variable is 1
Decode(sd, cs, x) ==
    [c \in KeySet(cs) |-> SelectSeq(Keys(sd), LAMBDA s : x[s] = c)]

\* Python truth of a clazz key
TruthyKey(c) == c # NoClass /\ c # 0

\* the loop of lines 180-184 (347-351) for one student: max_class
RECURSIVE ScanClasses(_, _, _, _, _, _)
\* (mutant of ScanClasses) the student is placed without the test of the clazz's size
ScanClassesIgnoringSize(sd, cs, ca, s, k, best) ==
    IF k > Len(cs) THEN best[2]
    ELSE LET clazz == cs[k][1]
             pref == Cardinality(PrefSet(sd, s) \cap Range(ca[clazz]))
         IN IF pref > best[1]
            THEN ScanClasses(sd, cs, ca, s, k + 1, <<pref, clazz>>)
            ELSE ScanClasses(sd, cs, ca, s, k + 1, best)

ScanClasses(sd, cs, ca, s, k, best) ==
    IF k > Len(cs) THEN best[2]
    ELSE LET clazz == cs[k][1]
             pref == Cardinality(PrefSet(sd, s) \cap Range(ca[clazz]))
         IN IF pref > best[1] /\ Len(ca[clazz]) < cs[k][2]
            THEN ScanClasses(sd, cs, ca, s, k + 1, <<pref, clazz>>)
            ELSE ScanClasses(sd, cs, ca, s, k + 1, best)

\* lines 178-186 (345-353) for one student: float("-inf") is below every
\* count, so -1 stands for it
PlaceStudent(sd, cs, ca, s) ==
    LET max_class == ScanClasses(sd, cs, ca, s, 1, <<-1, NoClass>>)
    IN IF TruthyKey(max_class)
       THEN [ca EXCEPT ![max_class] = Append(@, s)]
       ELSE ca

\* lines 170-186 (338-353): the students no variable places, in
\* students_data order
RECURSIVE Repair(_, _, _, _, _)
Repair(sd, cs, x, ca, i) ==
    IF i > Len(sd) THEN ca
    ELSE IF x[sd[i][1]] # NoClass THEN Repair(sd, cs, x, ca, i + 1)
    ELSE Repair(sd, cs, x, PlaceStudent(sd, cs, ca, sd[i][1]), i + 1)

\* ------------------------------------------------------------- inputs
SlotLists == {SubSeq(AllSlots, 1, n) : n \in 1..Len(AllSlots)}
ParentSets == {{AllParents[i] : i \in 1..n} : n \in 0..Len(AllParents)}

\* Parents are interchangeable labels: of the inputs that differ only by a
\* renaming of the parents, the one whose entries are in rank order is kept.
Rank(slots, e) ==
    (IF "Math" \in e.teachers THEN 1 ELSE 0) * 1000
    + (IF "Science" \in e.teachers THEN 1 ELSE 0) * 2000
    + SumOver([i \in DOMAIN slots |->
                  IF slots[i] \in e.preferred_slots THEN 2 ^ i ELSE 0],
              DOMAIN slots)

InRankOrder(slots, pp) ==
    \A i \in 1..Len(AllParents) - 1 :
        (AllParents[i] \in DOMAIN pp /\ AllParents[i + 1] \in DOMAIN pp)
            => Rank(slots, pp[AllParents[i]]) <= Rank(slots, pp[AllParents[i + 1]])

PreferenceMaps(slots) ==
    UNION { [ps -> [teachers : SUBSET Teachers \ {{}},
                    preferred_slots : SUBSET Range(slots)]]
          : ps \in ParentSets }

Inputs(slots) ==
    {pp \in PreferenceMaps(slots) :
        /\ Cardinality(MeetingRequests(pp)) <= MaxRequests
        /\ InRankOrder(slots, pp)}

\* the students: a prefix of AllStudents, each with a list of distinct ids
\* of other students or of no student
PrefLists(others) ==
    {q \in UNION {[1..n -> others] : n \in 0..MaxPrefs} :
        \A i \in DOMAIN q : \A j \in DOMAIN q : i # j => q[i] # q[j]}

UnknownCount(sd) ==
    SumOver([i \in DOMAIN sd |->
                Cardinality({j \in DOMAIN sd[i][2] : sd[i][2][j] = UnknownStudent})],
            DOMAIN sd)

StudentsInputs ==
    UNION { {sd \in [1..n -> (Range(AllStudents) \X PrefLists(
                                 {AllStudents[i] : i \in 1..n} \cup {UnknownStudent}))] :
                /\ \A i \in 1..n : sd[i][1] = AllStudents[i]
                /\ \A i \in 1..n : sd[i][1] \notin Range(sd[i][2])
                /\ UnknownCount(sd) <= MaxUnknownPrefs}
          : n \in 1..Len(AllStudents) }

ClassSizesInputs ==
    UNION { {[i \in DOMAIN ks |-> <<ks[i], sz[i]>>] : sz \in [DOMAIN ks -> 1..MaxCap]}
          : ks \in ClassKeyLists }

\* no LpProblem yet
NoModel == [objective |-> {}, linked |-> {}]

\* no call of student_sorting_algorithm.py is under way
ClassIdle ==
    /\ entry = "none"
    /\ students_data = <<>>
    /\ class_sizes = <<>>
    /\ time_limit = "None"
    /\ optional_parameter = "None"
    /\ parameter_concentration = FALSE
    /\ carriers = {}
    /\ cpc = "idle"
    /\ avg_similarity_within_clusters = <<0, 1>>
    /\ preference_type = "none"
    /\ ilp_model = NoModel
    /\ assigned = <<>>
    /\ ran_pre = FALSE
    /\ sol_status = 0
    /\ initial_attempt = <<>>
    /\ ran_full = FALSE
    /\ solution = <<>>
    /\ returned = "pending"

\* no call of the scheduler is under way
SchedIdle ==
    /\ variant = "none"
    /\ time_slots = <<>>
    /\ teachers = {}
    /\ parent_preferences = <<>>
    /\ preferred_reward = DefaultPreferredReward
    /\ pc = "idle"
    /\ G = <<>>
    /\ flowCost = 0
    /\ flowDict = {}
    /\ schedule = <<>>
    /\ total_reward = 0
    /\ unscheduled = {}
    /\ suggestions = <<>>
    /\ outcome = "running"

\* ------------------------------------------------------------ actions
Init ==
    /\ ClassIdle
    /\ variant \in {"suggestions", "drop"}
    /\ time_slots \in SlotLists
    /\ teachers = Teachers
    /\ parent_preferences \in Inputs(time_slots)
    /\ preferred_reward = DefaultPreferredReward
    /\ pc = "start"
    /\ G = <<>>
    /\ flowCost = 0
    /\ flowDict = {}
    /\ schedule = <<>>
    /\ total_reward = 0
    /\ unscheduled = {}
    /\ suggestions = <<>>
    /\ outcome = "running"

\* with_suggestions.py lines 21-87: build G
Build ==
    /\ variant = "suggestions"
    /\ pc = "start"
    /\ G' = BuildGraph(time_slots, parent_preferences, preferred_reward)
    /\ pc' = "built"
    /\ UNCHANGED <<variant, time_slots, teachers, parent_preferences,
                   preferred_reward, flowCost, flowDict, schedule,
                   total_reward, unscheduled, suggestions, outcome>>
    /\ UNCHANGED classVars

\* with_suggestions.py lines 89-103: nx.network_simplex(G) raises
\* NetworkXUnfeasible, which nothing catches, or returns a minimum-cost
\* flow; total_reward, the decoding loop and the return follow
SolveAndDecode ==
    /\ pc = "built"
    /\ LET flows == MinCostFlows(G)
       IN IF flows = {}
          THEN /\ outcome' = "NetworkXUnfeasible"
               /\ UNCHANGED <<flowCost, flowDict, schedule, total_reward>>
          ELSE \E F \in flows :
                  /\ flowDict' = F
                  /\ flowCost' = Cost(G, F)
                  /\ total_reward' = -Cost(G, F)
                  /\ schedule' = DecodeSchedule(F, time_slots, parent_preferences)
                  /\ outcome' = "returned"
    /\ pc' = "done"
    /\ UNCHANGED <<variant, time_slots, teachers, parent_preferences,
                   preferred_reward, G, unscheduled, suggestions>>
    /\ UNCHANGED classVars

\* parent_teacher_conference_sorting.py lines 37-38: the call of
\* feasibility_check and the early return. feasibility_check returns nothing
\* that is true, so lines 40-158 (the graph, the solve, the decoding into
\* schedule and unscheduled) are never reached.
DropSchedule ==
    /\ variant = "drop"
    /\ pc = "start"
    /\ LET fc == FeasibilityCheck(time_slots, parent_preferences)
       IN /\ outcome' = IF fc = "NameError" THEN "NameError"
                        ELSE IF ~Truthy(fc) THEN "returned None"
                        ELSE "running"
          /\ pc' = IF fc # "NameError" /\ Truthy(fc) THEN "drop_build" ELSE "done"
    /\ UNCHANGED <<variant, time_slots, teachers, parent_preferences,
                   preferred_reward, G, flowCost, flowDict, schedule,
                   total_reward, unscheduled, suggestions>>
    /\ UNCHANGED classVars

\* generate_schedule_with_suggestions lines 164-178, after its call of
\* schedule_meetings_optimal has returned
GenerateSuggestions ==
    /\ variant = "suggestions"
    /\ pc = "done"
    /\ outcome = "returned"
    /\ suggestions' = SuggestionsFor(schedule, time_slots, parent_preferences)
    /\ pc' = "suggested"
    /\ UNCHANGED <<variant, time_slots, teachers, parent_preferences,
                   preferred_reward, G, flowCost, flowDict, schedule,
                   total_reward, unscheduled, outcome>>
    /\ UNCHANGED classVars

Next == Build \/ SolveAndDecode \/ DropSchedule \/ GenerateSuggestions

Spec == Init /\ [][Next]_vars

\* ------------------------------------------- class assignment: actions
\* average_similarity lines 359-366: total_pairs and total_similarity over
\* itertools.combinations(prefs, 2) of every student
PrefPairs(sd) ==
    UNION {{<<i, j, k>> : <<j, k>> \in {q \in (DOMAIN sd[i][2]) \X (DOMAIN sd[i][2]) :
                                            q[1] < q[2]}}
           : i \in DOMAIN sd}

\* dataset.get(s, {"prefs": []})["prefs"]
PrefsOrEmpty(sd, s) == IF s \in KeySet(sd) THEN Lookup(sd, s) ELSE <<>>

SimilarPairs(sd) ==
    {t \in PrefPairs(sd) :
        sd[t[1]][2][t[2]] \in Range(PrefsOrEmpty(sd, sd[t[1]][2][t[3]]))}

\* average_similarity lines 368-371: 0, or the quotient of the two counts
AverageSimilarity(sd) ==
    IF PrefPairs(sd) = {} THEN <<0, 1>>
    ELSE <<Cardinality(SimilarPairs(sd)), Cardinality(PrefPairs(sd))>>

\* (mutant of DetectPreferenceType) the threshold itself is not enough
DetectAboveThreshold(sd) ==
    IF 4 * Cardinality(SimilarPairs(sd)) > 3 * Cardinality(PrefPairs(sd))
    THEN "Friend Groups (Clusters)" ELSE "Random Preferences"

\* detect_preference_type with threshold=0.75: the quotient of lines
\* 368-371 is at least 3/4
DetectPreferenceType(sd) ==
    LET total_pairs == Cardinality(PrefPairs(sd))
        total_similarity == Cardinality(SimilarPairs(sd))
        at_threshold == IF total_pairs = 0 THEN FALSE
                        ELSE 4 * total_similarity >= 3 * total_pairs
    IN IF at_threshold THEN "Friend Groups (Clusters)" ELSE "Random Preferences"

\* what ilp_assign_classes_with_preprocessing can do: for a partition that
\* preprocess returns, the KeyError of the objective or a solve outcome
PreOutcomes(sd, cs, limit, opt) ==
    UNION { IF PreBuildRaises(sd, cl, cs)
            THEN {[raised |-> TRUE, status |-> 0,
                   x |-> [s \in KeySet(sd) |-> NoClass]]}
            ELSE {[raised |-> FALSE, status |-> o[1], x |-> o[2]]
                  : o \in SolveOutcomes(PreModel(sd, cl, cs), sd, cs, limit, opt)}
          : cl \in Partitions(GraphNodes(sd)) }

\* (mutant) the check of the attempt always fails
ClassSizeNeverMet(cs, ca) == FALSE
\* combined_ilp_solver_rand_detection lines 414-417: class_size_met
ClassSizeMet(cs, ca) ==
    \A c \in KeySet(cs) : Lookup(cs, c) >= Len(ca[c])

\* optional_parameter, parameter_concentration and the students that
\* data.get(optional_parameter) == "yes" selects
Optional ==
    [parameter |-> optional_parameter, concentration |-> parameter_concentration,
     yes |-> carriers]

InitClass ==
    /\ SchedIdle
    /\ entry \in {"preprocessed", "full", "selector"}
    /\ students_data \in StudentsInputs
    /\ class_sizes \in ClassSizesInputs
    /\ time_limit \in IF entry = "full" THEN {"None"} ELSE {"None", "set"}
    /\ optional_parameter = "None"
    /\ parameter_concentration = FALSE
    /\ carriers = {}
    /\ cpc = CASE entry = "preprocessed" -> "pre"
               [] entry = "full" -> "full"
               [] OTHER -> "detect"
    /\ avg_similarity_within_clusters = <<0, 1>>
    /\ preference_type = "none"
    /\ ilp_model = NoModel
    /\ assigned = <<>>
    /\ ran_pre = FALSE
    /\ sol_status = 0
    /\ initial_attempt = <<>>
    /\ ran_full = FALSE
    /\ solution = <<>>
    /\ returned = "pending"

\* combined_ilp_solver_rand_detection lines 394-397 and 434
Detect ==
    /\ cpc = "detect"
    /\ avg_similarity_within_clusters' = AverageSimilarity(students_data)
    /\ preference_type' = DetectPreferenceType(students_data)
    /\ cpc' = IF preference_type' = "Friend Groups (Clusters)" THEN "pre" ELSE "full"
    /\ UNCHANGED <<argVars, ilp_model, assigned, ran_pre, sol_status,
                   initial_attempt, ran_full, solution, returned>>
    /\ UNCHANGED schedVars

\* ilp_assign_classes_with_preprocessing, the whole call: preprocess, the
\* model, solve(timeLimit=time_limit), the decoding and the repair; called
\* directly, or by line 398 of the selector
Preprocessed ==
    /\ cpc = "pre"
    /\ \E o \in PreOutcomes(students_data, class_sizes, time_limit, Optional) :
          IF o.raised
          THEN /\ returned' = "KeyError"
               /\ cpc' = "done"
               /\ UNCHANGED <<assigned, ran_pre, sol_status, initial_attempt,
                              solution>>
          ELSE LET ca == Repair(students_data, class_sizes, o.x,
                                Decode(students_data, class_sizes, o.x), 1)
               IN /\ assigned' = o.x
                  /\ ran_pre' = TRUE
                  /\ sol_status' = o.status
                  /\ initial_attempt' = ca
                  /\ IF entry = "preprocessed"
                     THEN /\ solution' = ca
                          /\ returned' = "assignment"
                          /\ cpc' = "done"
                     ELSE /\ cpc' = "check"
                          /\ UNCHANGED <<solution, returned>>
    /\ UNCHANGED <<argVars, avg_similarity_within_clusters, preference_type,
                   ilp_model, ran_full>>
    /\ UNCHANGED schedVars

\* combined_ilp_solver_rand_detection lines 409-433: the return of the
\* attempt, the call of the full formulation, or the end of the function
\* with nothing returned
CheckAttempt ==
    /\ cpc = "check"
    /\ IF sol_status = 1 \/ (sol_status = 2 /\ ClassSizeMet(class_sizes, initial_attempt))
       THEN /\ solution' = initial_attempt
            /\ returned' = "assignment"
            /\ cpc' = "done"
       ELSE IF sol_status = 2
       THEN /\ cpc' = "full"
            /\ UNCHANGED <<solution, returned>>
       ELSE /\ returned' = "None"
            /\ cpc' = "done"
            /\ UNCHANGED solution
    /\ UNCHANGED <<argVars, avg_similarity_within_clusters, preference_type,
                   ilp_model, assigned, ran_pre, sol_status, initial_attempt,
                   ran_full>>
    /\ UNCHANGED schedVars

\* ilp_assign_classes_less_constraints_with_preprocessing, the whole call:
\* the model, solve() without a time limit, the decoding and the repair;
\* called directly, or by lines 423 and 435 of the selector
Full ==
    /\ cpc = "full"
    /\ IF FullBuildRaises(students_data, class_sizes)
       THEN /\ returned' = "KeyError"
            /\ UNCHANGED <<ilp_model, assigned, ran_full, solution>>
       ELSE LET m == FullModel(students_data, class_sizes)
            IN \E o \in SolveOutcomes(m, students_data, class_sizes, "None", Optional) :
                  /\ ilp_model' = m
                  /\ assigned' = o[2]
                  /\ ran_full' = TRUE
                  /\ solution' = Repair(students_data, class_sizes, o[2],
                                        Decode(students_data, class_sizes, o[2]), 1)
                  /\ returned' = "assignment"
    /\ cpc' = "done"
    /\ UNCHANGED <<argVars, avg_similarity_within_clusters, preference_type,
                   ran_pre, sol_status, initial_attempt>>
    /\ UNCHANGED schedVars

\* the selector on datasets with longer prefs lists, which may name no
\* student any number of times; detection does not read class_sizes
DetectInputs ==
    {sd \in [1..Len(AllStudents) ->
                (Range(AllStudents) \X
                 {q \in UNION {[1..n -> Range(AllStudents) \cup {UnknownStudent}]
                               : n \in 0..MaxDetectPrefs} :
                     \A i \in DOMAIN q : \A j \in DOMAIN q : i # j => q[i] # q[j]})] :
        /\ \A i \in DOMAIN sd : sd[i][1] = AllStudents[i]
        /\ \A i \in DOMAIN sd : sd[i][1] \notin Range(sd[i][2])}

InitDetect ==
    /\ SchedIdle
    /\ entry = "selector"
    /\ students_data \in DetectInputs
    /\ class_sizes \in {cs \in ClassSizesInputs : Len(cs) = 1}
    /\ time_limit \in {"None", "set"}
    /\ optional_parameter = "None"
    /\ parameter_concentration = FALSE
    /\ carriers = {}
    /\ cpc = "detect"
    /\ avg_similarity_within_clusters = <<0, 1>>
    /\ preference_type = "none"
    /\ ilp_model = NoModel
    /\ assigned = <<>>
    /\ ran_pre = FALSE
    /\ sol_status = 0
    /\ initial_attempt = <<>>
    /\ ran_full = FALSE
    /\ solution = <<>>
    /\ returned = "pending"

\* the two solvers called with optional_parameter given, on datasets whose
\* prefs name students only
InitOptional ==
    /\ SchedIdle
    /\ entry \in {"preprocessed", "full"}
    /\ students_data \in {sd \in StudentsInputs : UnknownCount(sd) = 0}
    /\ class_sizes \in ClassSizesInputs
    /\ time_limit \in IF entry = "full" THEN {"None"} ELSE {"None", "set"}
    /\ optional_parameter = "special"
    /\ parameter_concentration \in BOOLEAN
    /\ carriers \in SUBSET KeySet(students_data)
    /\ cpc = IF entry = "preprocessed" THEN "pre" ELSE "full"
    /\ avg_similarity_within_clusters = <<0, 1>>
    /\ preference_type = "none"
    /\ ilp_model = NoModel
    /\ assigned = <<>>
    /\ ran_pre = FALSE
    /\ sol_status = 0
    /\ initial_attempt = <<>>
    /\ ran_full = FALSE
    /\ solution = <<>>
    /\ returned = "pending"

NextOptional == Preprocessed \/ Full

SpecOptional == InitOptional /\ [][NextOptional]_vars

NextClass == Detect \/ Preprocessed \/ CheckAttempt \/ Full

SpecClass == InitClass /\ [][NextClass]_vars

SpecDetect == InitDetect /\ [][NextClass]_vars

\* ------------------------------------------------------------- claims
Returned == pc = "done" /\ outcome = "returned"

\* the scheduled requests placed in a preferred slot of their parent
PreferredIn(sch) ==
    {q \in DOMAIN sch : sch[q] \in parent_preferences[q[1]].preferred_slots}

TeacherClash(sch) ==
    \E q1, q2 \in DOMAIN sch :
        q1 # q2 /\ q1[2] = q2[2] /\ sch[q1] = sch[q2]

ParentClash(sch) ==
    \E q1, q2 \in DOMAIN sch :
        q1 # q2 /\ q1[1] = q2[1] /\ sch[q1] = sch[q2]

\* C1: the decoded schedule never gives two requests of one teacher the
\* same slot. The code breaks it: a unit that enters the parent gadget
\* P(p,r) from A(p,t,r) may leave through B(p,t',r) of another teacher t'
\* of the same parent, so the teacher gadget T(t,r) does not count it.
C1_NoTeacherDoubleBooking ==
    Returned => ~TeacherClash(schedule)

\* C2: the decoded schedule never gives two requests of one parent the
\* same slot.
C2_NoParentDoubleBooking ==
    Returned => ~ParentClash(schedule)

\* a parent with two scheduled requests and one preferred slot, which the
\* reward draws both requests to
C2_Witness ==
    /\ Returned
    /\ \E q1, q2 \in DOMAIN schedule :
          /\ q1 # q2 /\ q1[1] = q2[1]
          /\ Cardinality(parent_preferences[q1[1]].preferred_slots) = 1
          /\ schedule[q1] \in parent_preferences[q1[1]].preferred_slots

\* C3: total_reward is preferred_reward times the number of scheduled
\* requests in a preferred slot of their parent, minus drop_penalty for
\* each dropped request; without drop edges nothing is dropped and it is
\* exactly preferred_reward times the preferred count.
C3_RewardCountsPreferred ==
    Returned =>
        /\ total_reward =
               preferred_reward * Cardinality(PreferredIn(schedule))
               - DefaultDropPenalty * Cardinality(unscheduled)
        /\ variant = "suggestions" =>
               total_reward = preferred_reward * Cardinality(PreferredIn(schedule))

\* a result with preferred and non-preferred assignments
C3_Witness ==
    /\ Returned
    /\ Cardinality(PreferredIn(schedule)) >= 2
    /\ PreferredIn(schedule) # DOMAIN schedule
    /\ total_reward = 2 * preferred_reward

\* the complete schedules without parent or teacher double-booking
ConflictFreeSchedules ==
    {sch \in [MeetingRequests(parent_preferences) -> Range(time_slots)] :
        ~TeacherClash(sch) /\ ~ParentClash(sch)}

\* C4: when a conflict-free complete schedule exists, the scheduler places
\* as many requests in a preferred slot as the best such schedule does.
\* The code places more, by double-booking a teacher (C1).
C4_PreferredCountIsConflictFreeOptimum ==
    (Returned /\ ConflictFreeSchedules # {}) =>
        \A sch \in ConflictFreeSchedules :
            /\ Cardinality(PreferredIn(sch)) <= Cardinality(PreferredIn(schedule))
            /\ \E best \in ConflictFreeSchedules :
                  Cardinality(PreferredIn(best)) = Cardinality(PreferredIn(schedule))

\* C5: without drop edges, a call that returns has given every request a
\* slot of time_slots.
C5_EveryRequestScheduled ==
    (Returned /\ variant = "suggestions") =>
        /\ DOMAIN schedule = MeetingRequests(parent_preferences)
        /\ \A q \in DOMAIN schedule : schedule[q] \in Range(time_slots)

\* a returned call with three requests or more over fewer parents
C5_Witness ==
    /\ Returned
    /\ variant = "suggestions"
    /\ Cardinality(MeetingRequests(parent_preferences)) >= 3
    /\ Cardinality(DOMAIN parent_preferences) < Cardinality(DOMAIN schedule)

\* C6: with drop edges and a non-empty parent_preferences, the call returns
\* (schedule, total_reward, unscheduled) and every request is in exactly one
\* of schedule and unscheduled. The code raises NameError in
\* feasibility_check instead.
C6_DropVariantPartitionsRequests ==
    (variant = "drop" /\ pc = "done" /\ DOMAIN parent_preferences # {}) =>
        /\ outcome = "returned"
        /\ DOMAIN schedule \cup unscheduled = MeetingRequests(parent_preferences)
        /\ DOMAIN schedule \cap unscheduled = {}

\* ------------------------------------------- class assignment: claims
Clustered == preference_type = "Friend Groups (Clusters)"

ReturnedAssignment == cpc = "done" /\ returned = "assignment"

WithinCapacity(cs, ca) ==
    \A i \in DOMAIN cs : Len(ca[cs[i][1]]) <= cs[i][2]

\* the places (clazz, index) where a class assignment lists student s
Listings(cs, ca, s) ==
    {<<c, i>> \in KeySet(cs) \X (1..Len(students_data)) :
        i <= Len(ca[c]) /\ ca[c][i] = s}

TotalCapacity(cs) == SumOver([i \in DOMAIN cs |-> cs[i][2]], DOMAIN cs)

\* students the solver's values place nowhere
LeftUnassigned == {s \in DOMAIN assigned : assigned[s] = NoClass}

\* C7: every class assignment returned by the preprocessed solver, the full
\* solver or the strategy selector lists at most class_sizes[c] students for
\* each class c, the students placed by repair included.
C7_ClassSizesRespected ==
    /\ ran_pre => WithinCapacity(class_sizes, initial_attempt)
    /\ ReturnedAssignment => WithinCapacity(class_sizes, solution)

\* a returned assignment in which repair has placed a student, filling a
\* class, while another student stays out for want of room
C7_Witness ==
    /\ ReturnedAssignment
    /\ \E s \in LeftUnassigned : Listings(class_sizes, solution, s) # {}
    /\ \E s \in LeftUnassigned : Listings(class_sizes, solution, s) = {}
    /\ \A i \in DOMAIN class_sizes :
          Len(solution[class_sizes[i][1]]) = class_sizes[i][2]

\* C8: when the total capacity is at least the number of students, the class
\* assignment returned after repair lists every student in exactly one class,
\* whatever the class ids are.
C8_EveryStudentExactlyOnce ==
    (ReturnedAssignment /\ TotalCapacity(class_sizes) >= Len(students_data))
        => \A s \in KeySet(students_data) :
              Cardinality(Listings(class_sizes, solution, s)) = 1

\* C9: when the dataset is Clustered and the preprocessed solve ends with a
\* status other than 1 or 2, the strategy selector runs the full formulation
\* and returns its class assignment.
C9_OtherStatusFallsBackToFull ==
    (entry = "selector" /\ cpc = "done" /\ Clustered /\ ran_pre
        /\ sol_status \notin {1, 2})
        => (ran_full /\ returned = "assignment")

\* C10: in the strategy selector, after a preprocessed solve of status 1 the
\* decoded assignment is returned and the full formulation is not run; after
\* one of status 2 the incumbent is returned when every class lists at most
\* its capacity, and otherwise the full formulation is run (without a time
\* limit) and its result returned.
C10_SelectorReturnsAttempt ==
    (entry = "selector" /\ cpc = "done" /\ ran_pre) =>
        /\ sol_status = 1 =>
              (returned = "assignment" /\ solution = initial_attempt /\ ~ran_full)
        /\ (sol_status = 2 /\ WithinCapacity(class_sizes, initial_attempt)) =>
              (returned = "assignment" /\ solution = initial_attempt /\ ~ran_full)
        /\ (sol_status = 2 /\ ~WithinCapacity(class_sizes, initial_attempt)) =>
              (ran_full \/ returned = "KeyError")

\* the selector has returned an incumbent of status 2 in which repair placed
\* a student
C10_Witness ==
    /\ entry = "selector"
    /\ ReturnedAssignment
    /\ ran_pre
    /\ sol_status = 2
    /\ solution = initial_attempt
    /\ \E s \in LeftUnassigned : Listings(class_sizes, solution, s) # {}

Suggested == pc = "suggested"

\* the requests whose suggestion list was computed
NeedingSuggestion ==
    {q \in DOMAIN schedule :
        schedule[q] \notin parent_preferences[q[1]].preferred_slots}

IndexIn(slots, slot) == CHOOSE k \in DOMAIN slots : slots[k] = slot

\* C12: in a suggestion list the preferred slots of the parent come first,
\* and within the preferred and within the other slots the order is that of
\* time_slots.
C12_SuggestionsInSlotOrder ==
    Suggested =>
        \A q \in NeedingSuggestion :
            \A i, j \in DOMAIN suggestions[q] :
                i < j =>
                    LET a == suggestions[q][i]
                        b == suggestions[q][j]
                        pref == parent_preferences[q[1]].preferred_slots
                    IN /\ ~(a \notin pref /\ b \in pref)
                       /\ ((a \in pref) = (b \in pref)) =>
                              IndexIn(time_slots, a) < IndexIn(time_slots, b)

\* C13: the suggestion list of a scheduled request holds exactly the slots
\* at which neither its parent nor its teacher has another scheduled
\* meeting, and the request's own slot is one of them.
C13_SuggestionsAreFreeSlots ==
    Suggested =>
        \A q \in NeedingSuggestion :
            /\ Range(suggestions[q]) =
                  {r \in Range(time_slots) :
                      \A o \in DOMAIN schedule \ {q} :
                          (o[1] = q[1] \/ o[2] = q[2]) => schedule[o] # r}
            /\ schedule[q] \in Range(suggestions[q])

\* ------------------------------------------- optional parameter: claims
CarriersIn(ca, c) == Range(ca[c]) \cap carriers

\* C14: in spread mode no class of a returned assignment lists more than
\* ceil(class_sizes[c] / number of classes) students whose attribute is "yes".
C14_SpreadBound ==
    (ReturnedAssignment /\ optional_parameter # "None" /\ ~parameter_concentration)
        => \A i \in DOMAIN class_sizes :
              (Cardinality(CarriersIn(solution, class_sizes[i][1])) - 1) * Len(class_sizes)
                  < class_sizes[i][2]

\* C15: in concentrate mode all students of a returned assignment whose
\* attribute is "yes" are listed in one class.
C15_ConcentratedInOneClass ==
    (ReturnedAssignment /\ optional_parameter # "None" /\ parameter_concentration)
        => \A c1, c2 \in KeySet(class_sizes) :
              (CarriersIn(solution, c1) # {} /\ CarriersIn(solution, c2) # {}) => c1 = c2

\* ------------------------------------------------ unknown ids and repair
\* C16: when a prefs list names an id that is no key of students_data, the
\* preprocessed and the full solver complete without raising, and the id is
\* listed in no class.
C16_UnknownPrefIgnored ==
    (cpc = "done" /\ entry \in {"preprocessed", "full"}
        /\ UnknownCount(students_data) > 0)
        => /\ returned = "assignment"
           /\ \A c \in KeySet(class_sizes) : UnknownStudent \notin Range(solution[c])

\* the classes with room in ca, and among them the earliest of those that
\* list the most prefs of s
WithRoom(ca) == {i \in DOMAIN class_sizes : Len(ca[class_sizes[i][1]]) < class_sizes[i][2]}

PrefsListed(ca, i, s) ==
    Cardinality(PrefSet(students_data, s) \cap Range(ca[class_sizes[i][1]]))

BestClassIndex(ca, s) ==
    Min({i \in WithRoom(ca) :
            \A j \in WithRoom(ca) : PrefsListed(ca, j, s) <= PrefsListed(ca, i, s)})

\* the students the solver left out, taken one at a time in students_data
\* order, each appended to its best class when some class has room
RECURSIVE GreedyRepair(_, _)
GreedyRepair(ca, i) ==
    IF i > Len(students_data) THEN ca
    ELSE LET s == students_data[i][1]
         IN IF assigned[s] # NoClass \/ WithRoom(ca) = {}
            THEN GreedyRepair(ca, i + 1)
            ELSE GreedyRepair(
                    [ca EXCEPT ![class_sizes[BestClassIndex(ca, s)][1]] = Append(@, s)],
                    i + 1)

\* C17: repair takes the students the solver left unassigned one at a time
\* in students_data order and appends each to the class that, among the
\* classes with room (students already placed by repair counted), lists the
\* most of its prefs, the earliest such class on ties; a student stays out
\* only when no class has room.
C17_RepairIsGreedy ==
    (ReturnedAssignment /\ entry \in {"preprocessed", "full"})
        => solution = GreedyRepair(Decode(students_data, class_sizes, assigned), 1)

\* ------------------------------------------ the full formulation: claims
\* (student1, student2, clazz) for all ordered pairs of distinct students
AllTriples ==
    {t \in KeySet(students_data) \X KeySet(students_data) \X KeySet(class_sizes) :
        t[1] # t[2]}

\* C18: the model of the full formulation holds the three AND constraints
\* for every ordered pair of distinct students and every class, so that each
\* pair variable is 1 exactly when both students are in the class.
C18_AllPairsLinked ==
    ran_full => ilp_model.linked = AllTriples

\* C19: the objective of the full formulation at solve() is the sum over all
\* ordered pairs of distinct students and all classes of
\* |prefs(s1) & prefs(s2)| times the pair variable (terms of coefficient 0
\* make no difference).
C19_ObjectiveOverAllPairs ==
    ran_full =>
        {t \in ilp_model.objective : t[4] # 0} =
            {t \in {<<u[1], u[2], u[3], CommonPrefs(students_data, u[1], u[2])>>
                       : u \in AllTriples} : t[4] # 0}

\* -------------------------------------------------- detection: claims
\* the unordered pairs {student, pref} of the dataset, and those of them in
\* which each lists the other
PreferencePairs ==
    {{students_data[i][1], p} : <<i, p>> \in
        {q \in (DOMAIN students_data) \X (KeySet(students_data) \cup {UnknownStudent}) :
            q[2] \in Range(students_data[q[1]][2])}}

Lists(a, b) == b \in Range(PrefsOrEmpty(students_data, a))

ReciprocatedPairs ==
    {pr \in PreferencePairs : \A a \in pr : \A b \in pr : a # b => Lists(a, b)}

\* C20: average_similarity returns the fraction of the unordered preference
\* pairs of the dataset in which both students list each other, 0 when there
\* are none; the value lies between 0 and 1.
C20_DensityIsReciprocatedFraction ==
    (entry = "selector" /\ cpc # "detect") =>
        LET num == avg_similarity_within_clusters[1]
            den == avg_similarity_within_clusters[2]
        IN /\ 0 <= num /\ num <= den
           /\ IF PreferencePairs = {} THEN num = 0
              ELSE num * Cardinality(PreferencePairs)
                      = Cardinality(ReciprocatedPairs) * den

====
